---- MODULE Spec2Model ----
(***************************************************************************)
(* Model of python/orchestrator/orchestrator.py: the Orchestrator process  *)
(* (bootstrap, the steering-command loop, command validation/execution and *)
(* the fatal cascade), together with its external collaborators (registry, *)
(* communicator, health/state aggregator, Command-and-Control) as          *)
(* nondeterministic environments.                                          *)
(*                                                                         *)
(* Every call the orchestrator makes on a collaborator is recorded, in     *)
(* program order, in the history variable  log.                            *)
(***************************************************************************)
EXTENDS Naturals, Sequences, FiniteSets

\* ------------------------------------------------------------------ bounds
\* longest response payload put on the Command-and-Control outbound channel
MaxPayload == 2
\* largest min_delay a step-size record carries (delays are 1..MaxDelay)
MaxDelay == 2

\* ------------------------------------------------------------- vocabulary
SteeringCommands == {"INIT", "START", "END"}

\* what communicator.receive(orchestrator_in_queue) can hand to the loop:
\* the four messages of the dispatch table, a receive failure
\* (Response.ERROR) and a message outside the table
InboundMessages == SteeringCommands \cup {"FATAL", "ERROR", "OTHER"}

\* the Application Companions whose local states are aggregated with the
\* orchestrator's own
Workers == {"w1", "w2"}

\* number of Command-and-Control entries find_all_by_category may return
CCCounts == {0, 1, 2}

\* elements of a response payload
FatalElem == [kind |-> "fatal", min_delay |-> 0]
AckElem == [kind |-> "ack", min_delay |-> 0]
StepElem(d) == [kind |-> "step", min_delay |-> d]

SeqsUpTo(S, n) == UNION {[1..k -> S] : k \in 0..n}

\* payloads Command-and-Control can answer a command with: step-size
\* records for INIT, acknowledgements otherwise, either possibly carrying
\* EVENT.STATE_UPDATE_FATAL
Payloads(c) ==
  IF c = "INIT"
    THEN SeqsUpTo({StepElem(d) : d \in 1..MaxDelay} \cup {FatalElem}, MaxPayload)
    ELSE SeqsUpTo({AckElem, FatalElem}, MaxPayload)

\* ------------------------------------------------------------------ state
VARIABLES
  pc,                \* position of the orchestrator process
  result,            \* what run() returned: NONE, OK, ERROR, EXCEPTION
  isRegistered,      \* self.__is_registered
  localState,        \* state of the orchestrator's own registry entry
  workerState,       \* local states of the Application Companions
  globalState,       \* value held by the health/state aggregator
  monitoring,        \* background monitoring: "off", "on", "finalized"
  cmd,               \* current_steering_command
  hres,              \* what the dispatched handler returned
  ccOut,             \* Command-and-Control outbound channel (one slot)
  hung,              \* Command-and-Control/its companions stopped answering
  responses,         \* local `responses` of __execute_steering_command
  stepSizes,         \* self.__step_sizes
  minStepSize,       \* min_step_size computed for INIT (0: none)
  responsesReceived, \* self.__responses_received
  localAtCall,       \* local state when the current handler was entered
  log                \* history of the calls made, in program order

vars == <<pc, result, isRegistered, localState, workerState, globalState,
          monitoring, cmd, hres, ccOut, hung, responses, stepSizes,
          minStepSize, responsesReceived, localAtCall, log>>

Ev(e, c, a, ok) == [ev |-> e, cmd |-> c, arg |-> a, ok |-> ok]

NoMsg == [kind |-> "none", items |-> <<>>]
ErrMsg == [kind |-> "error", items |-> <<>>]
ListMsg(p) == [kind |-> "list", items |-> p]

\* --------------------------------------------------- command state machine
ValidState(c) ==
  CASE c = "INIT" -> "READY"
    [] c = "START" -> "SYNCHRONIZING"
    [] c = "END" -> "RUNNING"
    [] OTHER -> "NONE"

\* INIT leaving the orchestrator in READY
NewState_InitStays(c) ==
  CASE c = "INIT" -> "READY"
    [] c = "START" -> "RUNNING"
    [] c = "END" -> "TERMINATED"
    [] OTHER -> "NONE"

NewState(c) ==
  CASE c = "INIT" -> "SYNCHRONIZING"
    [] c = "START" -> "RUNNING"
    [] c = "END" -> "TERMINATED"
    [] OTHER -> "NONE"

\* keys of command_execution_choices
CommandExecutionChoices == {"FATAL", "INIT", "START", "END"}

\* ------------------------------------------------- health/state aggregator
AllStates == {localState} \cup {workerState[w] : w \in Workers}

\* the converged global state: the common local state, ERROR when the
\* components disagree
Aggregate == IF Cardinality(AllStates) = 1 THEN localState ELSE "ERROR"

AggregateResponse == IF Cardinality(AllStates) = 1 THEN "OK" ELSE "ERROR"

\* ---------------------------------------------------------- pure helpers
RECURSIVE SeqMin(_)
SeqMin(s) ==
  IF Len(s) = 1 THEN s[1]
  ELSE LET m == SeqMin(Tail(s)) IN IF s[1] < m THEN s[1] ELSE m

\* the first record's delay taken for the minimum
FindMinimumStepSize_First(recs) == recs[1].min_delay

\* min(sub['min_delay'] for sub in step_sizes_with_pids), non-empty list
FindMinimumStepSize(recs) == SeqMin([i \in 1..Len(recs) |-> recs[i].min_delay])

\* EVENT.STATE_UPDATE_FATAL in responses
ContainsStateUpdateFatal(p) == \E i \in 1..Len(p) : p[i].kind = "fatal"

\* -------------------------------------------------------------------- Init
Init ==
  /\ pc = "start"
  /\ result = "NONE"
  /\ isRegistered = FALSE
  /\ localState = "NONE"
  /\ workerState \in [Workers -> {"READY", "TERMINATED"}]
  /\ globalState = "NONE"
  /\ monitoring = "off"
  /\ cmd = "NONE"
  /\ hres = "NONE"
  /\ ccOut = NoMsg
  /\ hung = FALSE
  /\ responses = <<>>
  /\ stepSizes = <<>>
  /\ minStepSize = 0
  /\ responsesReceived = <<>>
  /\ localAtCall = "NONE"
  /\ log = <<>>

\* the ERROR of a failed registration not acted upon: set-up goes on
RegisterWithRegistry_Continues ==
  /\ pc = "start"
  /\ \E r \in {"OK", "ERROR"} :
       IF r = "ERROR"
         THEN /\ log' = log \o <<Ev("register", "NONE", "ORCHESTRATOR", FALSE),
                                 Ev("sigterm", "NONE", "SIGTERM", TRUE)>>
              /\ pc' = "set_up"
              /\ UNCHANGED <<result, isRegistered, localState>>
         ELSE /\ log' = Append(log, Ev("register", "NONE", "ORCHESTRATOR", TRUE))
              /\ isRegistered' = TRUE
              /\ localState' = "READY"
              /\ pc' = "set_up"
              /\ UNCHANGED result
  /\ UNCHANGED <<workerState, globalState, monitoring, cmd, hres, ccOut, hung,
                 responses, stepSizes, minStepSize, responsesReceived,
                 localAtCall>>

\* --------------------------------------------------------------- bootstrap
\* __register_with_registry, and the ERROR return of __set_up_runtime/run
RegisterWithRegistry ==
  /\ pc = "start"
  /\ \E r \in {"OK", "ERROR"} :
       IF r = "ERROR"
         THEN /\ log' = log \o <<Ev("register", "NONE", "ORCHESTRATOR", FALSE),
                                 Ev("sigterm", "NONE", "SIGTERM", TRUE)>>
              /\ result' = "ERROR"
              /\ pc' = "done"
              /\ UNCHANGED <<isRegistered, localState>>
         ELSE /\ log' = Append(log, Ev("register", "NONE", "ORCHESTRATOR", TRUE))
              /\ isRegistered' = TRUE
              /\ localState' = "READY"
              /\ pc' = "set_up"
              /\ UNCHANGED result
  /\ UNCHANGED <<workerState, globalState, monitoring, cmd, hres, ccOut, hung,
                 responses, stepSizes, minStepSize, responsesReceived,
                 localAtCall>>

\* the rest of __set_up_runtime: fetch Command-and-Control, recompute the
\* global state (return value not looked at), start the monitors
SetUpRuntime ==
  /\ pc = "set_up"
  /\ \E n \in CCCounts :
       IF n = 0
         THEN \* self.__command_and_control_service[0] raises IndexError
              /\ log' = Append(log, Ev("find_cc", "NONE", "COMMAND_AND_SERVICE", FALSE))
              /\ result' = "EXCEPTION"
              /\ pc' = "done"
              /\ UNCHANGED <<globalState, monitoring>>
         ELSE /\ log' = log \o
                   <<Ev("find_cc", "NONE", "COMMAND_AND_SERVICE", TRUE),
                     Ev("recompute", "NONE", "BOOT", AggregateResponse = "OK"),
                     Ev("start_monitoring", "NONE", "BOOT", TRUE)>>
              /\ globalState' = Aggregate
              /\ monitoring' = "on"
              /\ pc' = "loop"
              /\ UNCHANGED result
  /\ UNCHANGED <<isRegistered, localState, workerState, cmd, hres, ccOut, hung,
                 responses, stepSizes, minStepSize, responsesReceived,
                 localAtCall>>

\* --------------------------------------------------------------- main loop
\* __handle_fatal_event reporting success
HandleFatalEvent_OK == "OK"

\* return value of __handle_fatal_event
HandleFatalEvent == "ERROR"

\* top of the while loop: receive the next message and dispatch it through
\* command_execution_choices
FetchSteeringCommand ==
  /\ pc = "loop"
  /\ \E m \in InboundMessages :
       /\ cmd' = m
       /\ log' = Append(log, Ev("in_recv", m, m, m # "ERROR"))
       /\ IF m \notin CommandExecutionChoices
            THEN \* command_execution_choices[m] raises KeyError
                 /\ result' = "EXCEPTION"
                 /\ pc' = "done"
                 /\ hres' = "NONE"
            ELSE IF m = "FATAL"
              THEN /\ hres' = HandleFatalEvent
                   /\ pc' = "returned"
                   /\ UNCHANGED result
              ELSE /\ hres' = "NONE"
                   /\ pc' = "validate"
                   /\ UNCHANGED result
  /\ localAtCall' = localState
  /\ UNCHANGED <<isRegistered, localState, workerState, globalState,
                 monitoring, ccOut, hung, responses, stepSizes, minStepSize,
                 responsesReceived>>

\* the precondition test left out
PreconditionHolds_Skipped(c, g) == TRUE

\* the test of step i: current_global_state() == valid_state
PreconditionHolds(c, g) == g = ValidState(c)

\* __execute_if_validated, step i
CheckGlobalState ==
  /\ pc = "validate"
  /\ log' = Append(log, Ev("validate", cmd, globalState,
                           PreconditionHolds(cmd, globalState)))
  /\ IF PreconditionHolds(cmd, globalState)
       THEN pc' = "update_local" /\ UNCHANGED hres
       ELSE pc' = "returned" /\ hres' = "ERROR"
  /\ UNCHANGED <<result, isRegistered, localState, workerState, globalState,
                 monitoring, cmd, ccOut, hung, responses, stepSizes,
                 minStepSize, responsesReceived, localAtCall>>

\* the local commit reported but not made before the send
UpdateLocalState_NotStored ==
  /\ pc = "update_local"
  /\ \E r \in {"OK", "ERROR"} :
       /\ log' = Append(log, Ev("update_local", cmd, NewState(cmd), r = "OK"))
       /\ IF r = "ERROR"
            THEN pc' = "returned" /\ hres' = "ERROR"
            ELSE pc' = "send" /\ UNCHANGED hres
  /\ UNCHANGED <<result, isRegistered, localState, workerState, globalState,
                 monitoring, cmd, ccOut, hung, responses, stepSizes,
                 minStepSize, responsesReceived, localAtCall>>

\* __execute_if_validated, step ii (registry update_state may fail)
UpdateLocalState ==
  /\ pc = "update_local"
  /\ \E r \in {"OK", "ERROR"} :
       /\ log' = Append(log, Ev("update_local", cmd, NewState(cmd), r = "OK"))
       /\ IF r = "ERROR"
            THEN pc' = "returned" /\ hres' = "ERROR" /\ UNCHANGED localState
            ELSE pc' = "send" /\ localState' = NewState(cmd) /\ UNCHANGED hres
  /\ UNCHANGED <<result, isRegistered, workerState, globalState, monitoring,
                 cmd, ccOut, hung, responses, stepSizes, minStepSize,
                 responsesReceived, localAtCall>>

\* the result of communicator.send not looked at
AfterSend_Ignored(sent) == "receive"

\* where __execute_steering_command goes after communicator.send returned
AfterSend(sent) == IF sent THEN "receive" ELSE "returned"

\* __execute_steering_command, step 1
SendSteeringCommand ==
  /\ pc = "send"
  /\ \E sent \in BOOLEAN :
       /\ log' = Append(log, Ev("send", cmd, cmd, sent))
       /\ pc' = AfterSend(sent)
       /\ hres' = IF AfterSend(sent) = "returned" THEN "ERROR" ELSE hres
  /\ UNCHANGED <<result, isRegistered, localState, workerState, globalState,
                 monitoring, cmd, ccOut, hung, responses, stepSizes,
                 minStepSize, responsesReceived, localAtCall>>

\* the result of __receive_responses not looked at
AfterReceive_Ignored(kind) == "process"

\* where __execute_steering_command goes after __receive_responses returned
AfterReceive(kind) == IF kind = "error" THEN "returned" ELSE "process"

\* __receive_responses and step 2 of __execute_steering_command: blocks
\* until something is on the outbound channel
ReceiveResponses ==
  /\ pc = "receive"
  /\ ccOut # NoMsg
  /\ log' = Append(log, Ev("cc_recv", cmd, ccOut.kind, ccOut.kind = "list"))
  /\ ccOut' = NoMsg
  /\ pc' = AfterReceive(ccOut.kind)
  /\ hres' = IF AfterReceive(ccOut.kind) = "returned" THEN "ERROR" ELSE hres
  /\ responses' = IF ccOut.kind = "list" THEN ccOut.items ELSE responses
  /\ UNCHANGED <<result, isRegistered, localState, workerState, globalState,
                 monitoring, cmd, hung, stepSizes, minStepSize,
                 responsesReceived, localAtCall>>

\* __process_responses and step 3 of __execute_steering_command
ProcessResponses ==
  /\ pc = "process"
  /\ IF ContainsStateUpdateFatal(responses)
       THEN \E sent \in BOOLEAN :
              /\ log' = log \o
                   <<Ev("send", cmd, "STATE_UPDATE_FATAL", sent),
                     Ev("finalize", cmd, "process_responses", TRUE),
                     Ev("process", cmd, "STATE_UPDATE_FATAL", FALSE)>>
              /\ monitoring' = "finalized"
              /\ hres' = "ERROR"
              /\ pc' = "returned"
              /\ UNCHANGED <<result, stepSizes, minStepSize, responsesReceived>>
       ELSE IF cmd = "INIT"
         THEN /\ stepSizes' = responses
              /\ IF Len(responses) = 0
                   THEN \* min([]) raises ValueError
                        /\ log' = Append(log, Ev("raise", cmd, "ValueError", FALSE))
                        /\ result' = "EXCEPTION"
                        /\ pc' = "done"
                        /\ UNCHANGED minStepSize
                   ELSE /\ log' = Append(log, Ev("process", cmd, "min_step_size", TRUE))
                        /\ minStepSize' = FindMinimumStepSize(responses)
                        /\ pc' = "update_global"
                        /\ UNCHANGED result
              /\ UNCHANGED <<monitoring, hres, responsesReceived>>
         ELSE /\ responsesReceived' = Append(responsesReceived, responses)
              /\ log' = Append(log, Ev("process", cmd, "append", TRUE))
              /\ pc' = "update_global"
              /\ UNCHANGED <<result, monitoring, hres, stepSizes, minStepSize>>
  /\ UNCHANGED <<isRegistered, localState, workerState, globalState, cmd,
                 ccOut, hung, responses, localAtCall>>

\* __execute_if_validated, step iv
UpdateGlobalState ==
  /\ pc = "update_global"
  /\ log' = Append(log, Ev("recompute", cmd, cmd, AggregateResponse = "OK"))
  /\ globalState' = Aggregate
  /\ hres' = AggregateResponse
  /\ pc' = "returned"
  /\ UNCHANGED <<result, isRegistered, localState, workerState, monitoring,
                 cmd, ccOut, hung, responses, stepSizes, minStepSize,
                 responsesReceived, localAtCall>>

\* the loop returning OK whatever the handler returned after END
LoopChoice_ErrorUnseen(h, c) ==
  IF c = "END" THEN "return_ok"
  ELSE IF h = "ERROR" THEN "terminate"
  ELSE "continue"

\* the loop without its exit after END
LoopChoice_NoExit(h, c) == IF h = "ERROR" THEN "terminate" ELSE "continue"

\* the loop returning OK after any command that succeeded
LoopChoice_ExitAfterAny(h, c) == IF h = "ERROR" THEN "terminate" ELSE "return_ok"

\* what the loop does with the handler's return value
LoopChoice(h, c) ==
  IF h = "ERROR" THEN "terminate"
  ELSE IF c = "END" THEN "return_ok"
  ELSE "continue"

\* the loop going on after __terminate_with_error
AfterTerminate_Continue == "loop"

\* where the process is after __terminate_with_error: the loop returns
AfterTerminate == "done"

\* the fatal cascade without its send of EVENT.FATAL
LoopDecision_NoFatalSend ==
  /\ pc = "returned"
  /\ IF LoopChoice(hres, cmd) = "terminate"
       THEN /\ log' = log \o
                 <<Ev("terminate", cmd, "terminate_with_error", TRUE),
                   Ev("finalize", cmd, "terminate_with_error", TRUE)>>
            /\ monitoring' = "finalized"
            /\ result' = "ERROR"
            /\ pc' = AfterTerminate
       ELSE IF LoopChoice(hres, cmd) = "return_ok"
         THEN /\ log' = Append(log, Ev("return_ok", cmd, "OK", TRUE))
              /\ result' = "OK"
              /\ pc' = "done"
              /\ UNCHANGED monitoring
         ELSE /\ pc' = "loop"
              /\ UNCHANGED <<log, result, monitoring>>
  /\ UNCHANGED <<isRegistered, localState, workerState, globalState, cmd,
                 hres, ccOut, hung, responses, stepSizes, minStepSize,
                 responsesReceived, localAtCall>>

\* the rest of the loop body: fatal cascade (__terminate_with_error with
\* __send_terminate_command), normal end after END, or the next iteration
LoopDecision ==
  /\ pc = "returned"
  /\ IF LoopChoice(hres, cmd) = "terminate"
       THEN \E sent \in BOOLEAN :
              /\ log' = log \o
                   <<Ev("terminate", cmd, "terminate_with_error", TRUE),
                     Ev("send", cmd, "FATAL", sent),
                     Ev("finalize", cmd, "terminate_with_error", TRUE)>>
              /\ monitoring' = "finalized"
              /\ result' = "ERROR"
              /\ pc' = AfterTerminate
       ELSE IF LoopChoice(hres, cmd) = "return_ok"
         THEN /\ log' = Append(log, Ev("return_ok", cmd, "OK", TRUE))
              /\ result' = "OK"
              /\ pc' = "done"
              /\ UNCHANGED monitoring
         ELSE /\ pc' = "loop"
              /\ UNCHANGED <<log, result, monitoring>>
  /\ UNCHANGED <<isRegistered, localState, workerState, globalState, cmd,
                 hres, ccOut, hung, responses, stepSizes, minStepSize,
                 responsesReceived, localAtCall>>

\* ------------------------------------------------------------- environment
\* Command-and-Control answers the command in flight: a payload or
\* Response.ERROR; each Application Companion has or has not adopted the
\* command's new state
CCRespond ==
  /\ pc = "receive"
  /\ ccOut = NoMsg
  /\ ~hung
  /\ \E m \in {ErrMsg} \cup {ListMsg(p) : p \in Payloads(cmd)} :
       ccOut' = m
  /\ \E adv \in SUBSET Workers :
       workerState' = [w \in Workers |->
                         IF w \in adv THEN NewState(cmd) ELSE workerState[w]]
  /\ UNCHANGED <<pc, result, isRegistered, localState, globalState,
                 monitoring, cmd, hres, hung, responses, stepSizes,
                 minStepSize, responsesReceived, localAtCall, log>>

\* a component stops before answering: nothing will arrive on the outbound
\* channel
ComponentHangs ==
  /\ pc = "receive"
  /\ ccOut = NoMsg
  /\ ~hung
  /\ hung' = TRUE
  /\ UNCHANGED <<pc, result, isRegistered, localState, workerState,
                 globalState, monitoring, cmd, hres, ccOut, responses,
                 stepSizes, minStepSize, responsesReceived, localAtCall, log>>

\* the aggregator's background polling recomputes the global state
HealthPoll ==
  /\ monitoring = "on"
  /\ globalState' = Aggregate
  /\ UNCHANGED <<pc, result, isRegistered, localState, workerState,
                 monitoring, cmd, hres, ccOut, hung, responses, stepSizes,
                 minStepSize, responsesReceived, localAtCall, log>>

\* ----------------------------------------------------------- specification
OrchestratorNext ==
  \/ RegisterWithRegistry
  \/ SetUpRuntime
  \/ FetchSteeringCommand
  \/ CheckGlobalState
  \/ UpdateLocalState
  \/ SendSteeringCommand
  \/ ReceiveResponses
  \/ ProcessResponses
  \/ UpdateGlobalState
  \/ LoopDecision

EnvironmentNext ==
  \/ CCRespond
  \/ ComponentHangs
  \/ HealthPoll

Next == OrchestratorNext \/ EnvironmentNext

Spec == Init /\ [][Next]_vars

\* the orchestrator process keeps running whenever it is not blocked; the
\* environment is under no obligation to answer
LiveSpec == Init /\ [][Next]_vars /\ WF_vars(OrchestratorNext)

TypeOK ==
  /\ pc \in {"start", "set_up", "loop", "validate", "update_local", "send",
             "receive", "process", "update_global", "returned", "done"}
  /\ result \in {"NONE", "OK", "ERROR", "EXCEPTION"}
  /\ hres \in {"NONE", "OK", "ERROR"}
  /\ monitoring \in {"off", "on", "finalized"}
  /\ minStepSize \in 0..MaxDelay

\* ------------------------------------------------------ reading the history
IsSteeringSend(e) == e.ev = "send" /\ e.arg \in SteeringCommands

\* an event of __terminate_with_error
IsCascadeEvent(e) ==
  \/ e.ev = "terminate"
  \/ e.ev = "send" /\ e.arg = "FATAL"
  \/ e.ev = "finalize" /\ e.arg = "terminate_with_error"

\* an event of one of the steps of __execute_if_validated
IsStepEvent(e) ==
  /\ e.cmd \in SteeringCommands
  /\ \/ e.ev \in {"validate", "update_local", "cc_recv", "process", "recompute"}
     \/ IsSteeringSend(e)

\* events of a handler at work on a command
IsCommandWork(e) ==
  \/ e.ev \in {"validate", "update_local", "cc_recv", "process", "recompute"}
  \/ IsSteeringSend(e)

OnlyCascadeAfter(i) == \A j \in (i + 1)..Len(log) : IsCascadeEvent(log[j])

CountEvents(Test(_)) == Cardinality({i \in 1..Len(log) : Test(log[i])})

IsStateUpdateFatalSend(e) == e.ev = "send" /\ e.arg = "STATE_UPDATE_FATAL"
IsFatalSend(e) == e.ev = "send" /\ e.arg = "FATAL"
IsFinalize(e) == e.ev = "finalize"

\* ------------------------------------------------------------------ claims
C1_Mismatch(i) ==
  /\ log[i].ev = "validate"
  /\ log[i].arg # ValidState(log[i].cmd)

\* C1: when the global state read by __execute_if_validated differs from
\* the command's valid_state, the call returns ERROR and nothing of the
\* command is done in it: the local state keeps the value it had when the
\* handler was entered, and no local update, send of the command, receive
\* from Command-and-Control or recomputation follows the check (what
\* follows, if anything, is the loop's fatal cascade).
C1_NoExecutionOnInvalidState ==
  \A i \in 1..Len(log) :
    C1_Mismatch(i) =>
      /\ pc \in {"returned", "done"}
      /\ hres = "ERROR"
      /\ localState = localAtCall
      /\ \A j \in (i + 1)..Len(log) : ~IsCommandWork(log[j])
      /\ OnlyCascadeAfter(i)

\* START arrives while the global state is READY and has been rejected
C1_Witness ==
  /\ pc = "returned"
  /\ hres = "ERROR"
  /\ cmd = "START"
  /\ Len(log) > 0
  /\ C1_Mismatch(Len(log))
  /\ log[Len(log)].arg = "READY"

\* C2: a recomputation of the global state requested for a command comes
\* directly after that command's successful precondition check, local
\* commit, send, receive and response processing, in that order; a step
\* that fails is the last step of its command, the handler returns ERROR,
\* and the next thing that happens is the fatal cascade.
C2_NoAdvanceOnPartialFailure ==
  /\ \A i \in 1..Len(log) :
       (log[i].ev = "recompute" /\ log[i].cmd \in SteeringCommands) =>
         /\ i > 5
         /\ \A k \in 1..5 : log[i - k].ok /\ log[i - k].cmd = log[i].cmd
         /\ log[i - 5].ev = "validate"
         /\ log[i - 4].ev = "update_local"
         /\ IsSteeringSend(log[i - 3]) /\ log[i - 3].arg = log[i].cmd
         /\ log[i - 2].ev = "cc_recv"
         /\ log[i - 1].ev = "process"
  /\ \A i \in 1..Len(log) :
       (IsStepEvent(log[i]) /\ ~log[i].ok) =>
         /\ pc \in {"returned", "done"}
         /\ hres = "ERROR"
         /\ i < Len(log) => log[i + 1].ev = "terminate"
         /\ \A j \in (i + 1)..Len(log) : ~IsCommandWork(log[j])
         /\ pc = "done" => result = "ERROR" /\ i < Len(log)

\* scenario B: START was sent in global state SYNCHRONIZING, the send
\* failed, and the run ended in the fatal cascade
C2_Witness ==
  /\ pc = "done"
  /\ result = "ERROR"
  /\ \E i \in 3..Len(log) :
       /\ log[i] = Ev("send", "START", "START", FALSE)
       /\ log[i - 2] = Ev("validate", "START", "SYNCHRONIZING", TRUE)

\* C3 (as claimed): a run in which a response carried STATE_UPDATE_FATAL
\* ends with ERROR having emitted exactly one STATE_UPDATE_FATAL event and
\* no FATAL event, and having finalized monitoring.
C3_OnlyStateUpdateFatalEmitted ==
  (pc = "done" /\ ContainsStateUpdateFatal(responses)) =>
    /\ result = "ERROR"
    /\ CountEvents(IsStateUpdateFatalSend) = 1
    /\ CountEvents(IsFatalSend) = 0
    /\ CountEvents(IsFinalize) >= 1

\* C4: when the handler has returned ERROR, the loop's next step sends
\* EVENT.FATAL, then finalizes the monitor, then returns ERROR, whether or
\* not that send succeeded.
C4_ErrorRunsFatalCascade ==
  [][(pc = "returned" /\ hres = "ERROR" /\ pc' # pc) =>
        /\ \E sent \in BOOLEAN :
             log' = log \o
               <<Ev("terminate", cmd, "terminate_with_error", TRUE),
                 Ev("send", cmd, "FATAL", sent),
                 Ev("finalize", cmd, "terminate_with_error", TRUE)>>
        /\ monitoring' = "finalized"
        /\ result' = "ERROR"
        /\ pc' = "done"]_vars

\* the cascade has run after a failed END, and its EVENT.FATAL send failed
C4_Witness ==
  /\ pc = "done"
  /\ result = "ERROR"
  /\ cmd = "END"
  /\ Len(log) >= 3
  /\ log[Len(log) - 1] = Ev("send", "END", "FATAL", FALSE)
  /\ log[Len(log)] = Ev("finalize", "END", "terminate_with_error", TRUE)
  /\ monitoring = "finalized"

SteeringSends == SelectSeq(log, IsSteeringSend)

\* C5: the steering commands sent to Command-and-Control, in the order of
\* sending, form a prefix of INIT, START, END.
C5_CommandsInOrder ==
  /\ Len(SteeringSends) <= 3
  /\ \A k \in 1..Len(SteeringSends) :
       SteeringSends[k].arg = <<"INIT", "START", "END">>[k]

\* all three commands have been sent
C5_Witness == Len(SteeringSends) = 3

\* C6: when the END handler has returned OK the loop's next step returns
\* OK, and once the loop has returned OK the orchestrator does nothing
\* more: no receive, no send, no other call.
C6_EndTerminatesLoop ==
  /\ [](result = "OK" => (pc = "done" /\ cmd = "END"))
  /\ [][/\ (pc = "returned" /\ cmd = "END" /\ hres = "OK" /\ pc' # pc) =>
             (pc' = "done" /\ result' = "OK")
        /\ result = "OK" => (log' = log /\ pc' = pc /\ result' = result)]_vars

\* END has been executed and the loop has returned OK
C6_Witness ==
  /\ pc = "done"
  /\ result = "OK"
  /\ localState = "TERMINATED"
  /\ log[Len(log)].ev = "return_ok"

\* C7: once __terminate_with_error has been invoked the loop is over: the
\* only calls after it are its own send and finalize; no message is
\* received and no command is validated, committed or sent.
C7_CascadeIsTerminal ==
  \A i \in 1..Len(log) :
    log[i].ev = "terminate" =>
      /\ pc = "done"
      /\ result = "ERROR"
      /\ Len(log) = i + 2
      /\ IsFatalSend(log[i + 1])
      /\ IsFinalize(log[i + 2])

\* the cascade has run after INIT had been executed
C7_Witness ==
  /\ pc = "done"
  /\ \E i \in 1..Len(log) : log[i].ev = "terminate"
  /\ localAtCall = "SYNCHRONIZING"

C8_FatalReceived(i) == log[i].ev = "in_recv" /\ log[i].arg = "FATAL"

\* C8: EVENT.FATAL received by the loop yields ERROR with no precondition
\* check, no local-state update and no steering command sent; the only
\* thing that follows is the fatal cascade.
C8_FatalEventAborts ==
  \A i \in 1..Len(log) :
    C8_FatalReceived(i) =>
      /\ pc \in {"returned", "done"}
      /\ hres = "ERROR"
      /\ localState = localAtCall
      /\ OnlyCascadeAfter(i)
      /\ pc = "done" =>
           (result = "ERROR" /\ Len(log) = i + 3 /\ log[i + 1].ev = "terminate")

\* EVENT.FATAL arrived while RUNNING and the cascade has run
C8_Witness ==
  /\ pc = "done"
  /\ cmd = "FATAL"
  /\ localState = "RUNNING"
  /\ \E i \in 1..Len(log) : C8_FatalReceived(i)

C9_SendFailed(i) == IsSteeringSend(log[i]) /\ ~log[i].ok

\* C9: after a failed send of a steering command the command reports
\* ERROR, nothing is received from Command-and-Control and the command
\* is not sent again.
C9_NoReceiveAfterFailedSend ==
  \A i \in 1..Len(log) :
    C9_SendFailed(i) =>
      /\ pc \in {"returned", "done"}
      /\ hres = "ERROR"
      /\ \A j \in (i + 1)..Len(log) :
           log[j].ev # "cc_recv" /\ ~IsSteeringSend(log[j])

\* the send of INIT failed and the handler has returned
C9_Witness ==
  /\ pc = "returned"
  /\ hres = "ERROR"
  /\ Len(log) > 0
  /\ log[Len(log)] = Ev("send", "INIT", "INIT", FALSE)

\* a component has failed during the command in flight: it does not answer,
\* it answers with an error, or it reports STATE_UPDATE_FATAL
ComponentFailed ==
  /\ pc = "receive"
  /\ \/ hung
     \/ ccOut.kind = "error"
     \/ ccOut.kind = "list" /\ ContainsStateUpdateFatal(ccOut.items)

ShutDown ==
  /\ pc = "done"
  /\ result = "ERROR"
  /\ CountEvents(IsFatalSend) + CountEvents(IsStateUpdateFatalSend) >= 1
  /\ monitoring = "finalized"

\* C10 (as claimed): whenever a component fails during a command, the
\* orchestrator eventually broadcasts a fatal event, finalizes monitoring
\* and returns ERROR.
C10_FailureForcesShutdown == ComponentFailed ~> ShutDown

\* INIT's response has been reduced to its result
C11_InitReduced ==
  \E i \in 1..Len(log) :
    log[i] = Ev("process", "INIT", "min_step_size", TRUE)

\* C11: the result computed for a non-empty collection of step-size records
\* received for INIT is the least of their min_delay values: it is the
\* delay of one of the records and no record has a smaller one (so for a
\* single record it is that record's delay).
C11_InitResultIsMinimum ==
  C11_InitReduced =>
    /\ Len(stepSizes) >= 1
    /\ \E i \in 1..Len(stepSizes) : stepSizes[i].min_delay = minStepSize
    /\ \A i \in 1..Len(stepSizes) : minStepSize <= stepSizes[i].min_delay
    /\ Len(stepSizes) = 1 => minStepSize = stepSizes[1].min_delay

\* two records, the smaller delay in the second one (scenario A)
C11_Witness ==
  /\ C11_InitReduced
  /\ stepSizes = <<StepElem(2), StepElem(1)>>
  /\ minStepSize = 1

\* C12 (as claimed): when the collection of step-size records received for
\* INIT is empty, the run ends with ERROR after the fatal cascade:
\* EVENT.FATAL sent and monitoring finalized.
C12_EmptyStepSizesRejected ==
  (/\ pc = "done"
   /\ cmd = "INIT"
   /\ responses = <<>>
   /\ \E i \in 1..Len(log) : log[i] = Ev("cc_recv", "INIT", "list", TRUE)) =>
    /\ result = "ERROR"
    /\ CountEvents(IsFatalSend) = 1
    /\ monitoring = "finalized"

IsFatalOrStateUpdateFatalSend(e) == IsFatalSend(e) \/ IsStateUpdateFatalSend(e)

\* C13: in a run whose loop returned OK, finalize_monitoring was never
\* called and neither FATAL nor STATE_UPDATE_FATAL was ever sent.
C13_MonitorsUntouchedOnOk ==
  result = "OK" =>
    /\ CountEvents(IsFinalize) = 0
    /\ CountEvents(IsFatalOrStateUpdateFatalSend) = 0
    /\ monitoring = "on"

\* scenario C: END executed in RUNNING, the loop has returned OK
C13_Witness ==
  /\ result = "OK"
  /\ cmd = "END"
  /\ localAtCall = "RUNNING"
  /\ globalState = "TERMINATED"

\* a step of the bootstrap has failed: the registration, the lookup of
\* Command-and-Control, or the first recomputation of the global state
C14_BootstrapFailed ==
  \E i \in 1..Len(log) :
    /\ ~log[i].ok
    /\ \/ log[i].ev \in {"register", "find_cc"}
       \/ log[i].ev = "recompute" /\ log[i].arg = "BOOT"

IsInboundReceive(e) == e.ev = "in_recv"

\* C14 (as claimed): after a failed bootstrap step run() has returned
\* ERROR, the monitors were not started and the loop was not entered.
C14_BootstrapFailureAborts ==
  C14_BootstrapFailed =>
    /\ pc = "done"
    /\ result = "ERROR"
    /\ monitoring = "off"
    /\ CountEvents(IsInboundReceive) = 0

C15_RegistrationFailed ==
  \E i \in 1..Len(log) : log[i].ev = "register" /\ ~log[i].ok

\* C15: when register() returned ERROR the orchestrator raised SIGTERM on
\* itself and returned ERROR, and did nothing else: the registered flag is
\* not set, Command-and-Control was not looked up, no monitor was started,
\* nothing was sent and no message was received by the loop.
C15_UnregisteredNeverRuns ==
  C15_RegistrationFailed =>
    /\ log = <<Ev("register", "NONE", "ORCHESTRATOR", FALSE),
               Ev("sigterm", "NONE", "SIGTERM", TRUE)>>
    /\ pc = "done"
    /\ result = "ERROR"
    /\ ~isRegistered
    /\ monitoring = "off"
    /\ localState = "NONE"

\* the registration has failed and run() has returned
C15_Witness ==
  /\ C15_RegistrationFailed
  /\ pc = "done"
  /\ result = "ERROR"
  /\ Len(log) = 2

\* the handler of INIT or START has returned OK
C16_Executed ==
  /\ pc = "returned"
  /\ hres = "OK"
  /\ cmd \in {"INIT", "START"}

C16_RecomputesFor(c) ==
  Cardinality({i \in 1..Len(log) : log[i].ev = "recompute" /\ log[i].cmd = c})

\* C16: when INIT or START has passed all four steps, the local state is
\* the command's new_state, one recomputation was requested for it, no
\* fatal event was sent and monitoring is not finalized; the loop's next
\* step makes no call and goes back to wait for the next message.
C16_SuccessContinues ==
  /\ [](C16_Executed =>
          /\ localState = NewState(cmd)
          /\ C16_RecomputesFor(cmd) = 1
          /\ CountEvents(IsFatalOrStateUpdateFatalSend) = 0
          /\ CountEvents(IsFinalize) = 0
          /\ monitoring = "on")
  /\ [][(C16_Executed /\ pc' # pc) =>
          /\ pc' = "loop"
          /\ log' = log
          /\ result' = "NONE"
          /\ monitoring' = "on"]_vars

\* scenario A: INIT executed in READY with delays 2 and 1, result 1, and
\* the loop waits for the next message in SYNCHRONIZING
C16_Witness ==
  /\ pc = "loop"
  /\ cmd = "INIT"
  /\ hres = "OK"
  /\ stepSizes = <<StepElem(2), StepElem(1)>>
  /\ minStepSize = 1
  /\ localState = "SYNCHRONIZING"
  /\ globalState = "SYNCHRONIZING"

\* the command was sent and its send, or the receive after it, failed
C17_FailedAfterCommit(i) ==
  /\ log[i].cmd \in SteeringCommands
  /\ ~log[i].ok
  /\ IsSteeringSend(log[i]) \/ log[i].ev = "cc_recv"

\* C17: a steering command is sent only directly after the successful
\* update of the local state to its new_state, and the local state has
\* that value when the send is made; after a failed local update the
\* command is never sent; after a failed send or receive the local state
\* is still new_state.
C17_CommitBeforeSend ==
  /\ pc = "send" => localState = NewState(cmd)
  /\ \A i \in 1..Len(log) :
       IsSteeringSend(log[i]) =>
         /\ i > 1
         /\ log[i - 1] = Ev("update_local", log[i].arg, NewState(log[i].arg), TRUE)
         /\ i = Len(log) => localState = NewState(log[i].arg)
  /\ \A i \in 1..Len(log) :
       (log[i].ev = "update_local" /\ ~log[i].ok) =>
         /\ localState = localAtCall
         /\ \A j \in (i + 1)..Len(log) : ~IsSteeringSend(log[j])
  /\ \A i \in 1..Len(log) :
       C17_FailedAfterCommit(i) => localState = NewState(log[i].cmd)

\* the receive for START failed and the cascade has run: no rollback
C17_Witness ==
  /\ pc = "done"
  /\ result = "ERROR"
  /\ localState = "RUNNING"
  /\ \E i \in 1..Len(log) : log[i] = Ev("cc_recv", "START", "error", FALSE)

LifecycleEdges ==
  {<<"NONE", "READY">>, <<"READY", "SYNCHRONIZING">>,
   <<"SYNCHRONIZING", "RUNNING">>, <<"RUNNING", "TERMINATED">>}

\* C18: every change of the orchestrator's local state is one forward edge
\* of READY -> SYNCHRONIZING -> RUNNING -> TERMINATED (after the entry was
\* registered in READY), made by the command whose new_state it is.
C18_LocalStateMonotone ==
  [][localState' # localState =>
       /\ <<localState, localState'>> \in LifecycleEdges
       /\ localState # "NONE" =>
            (localState = ValidState(cmd) /\ localState' = NewState(cmd))]_vars

\* the whole lifecycle has been walked
C18_Witness ==
  /\ localState = "TERMINATED"
  /\ Cardinality({i \in 1..Len(log) : log[i].ev = "update_local" /\ log[i].ok}) = 3

\* C19 (as claimed): a run that entered the loop leaves it only by the
\* loop's own decision: the OK return after END, or the fatal cascade
\* and its ERROR return.
C19_LoopLeftByDecisionOnly ==
  (pc = "done" /\ CountEvents(IsInboundReceive) >= 1) =>
    \/ result = "OK" /\ log[Len(log)].ev = "return_ok"
    \/ /\ result = "ERROR"
       /\ Len(log) >= 3
       /\ log[Len(log) - 2].ev = "terminate"

\* C20 (as claimed): finalize_monitoring() is called at most once in a run.
C20_FinalizeAtMostOnce == CountEvents(IsFinalize) <= 1

\* the main loop (entered: it has received a message) has returned ERROR
C21_LoopReturnedError ==
  /\ result = "ERROR"
  /\ CountEvents(IsInboundReceive) >= 1

\* C21: when the main loop has returned ERROR, EVENT.FATAL was sent on the
\* Command-and-Control inbound channel exactly once in the run,
\* finalize_monitoring() was called at least once, and nothing was sent
\* after that EVENT.FATAL.
C21_ErrorReturnAfterOneFatal ==
  C21_LoopReturnedError =>
    /\ CountEvents(IsFatalSend) = 1
    /\ CountEvents(IsFinalize) >= 1
    /\ \A i \in 1..Len(log) :
         IsFatalSend(log[i]) =>
           \A j \in (i + 1)..Len(log) : log[j].ev # "send"

\* the loop returned ERROR after a STATE_UPDATE_FATAL response to START:
\* STATE_UPDATE_FATAL was sent first, EVENT.FATAL after it
C21_Witness ==
  /\ C21_LoopReturnedError
  /\ pc = "done"
  /\ cmd = "START"
  /\ CountEvents(IsStateUpdateFatalSend) = 1
  /\ CountEvents(IsFatalSend) = 1

====
